---- MODULE Spec2Model ----
(***************************************************************************)
(* Topic / reply engine of src/lib/subject/index.ts: createTopicReply      *)
(* (a transaction that inserts a reply row and rewrites the topic's        *)
(* counter and dateline), scoredUpdateTime (gravity decay), fetchDetail    *)
(* (two-level thread assembly), fetchTopicList (a filtered, sorted page of *)
(* topics) and edit (a transaction that revises a sandbox subject).        *)
(***************************************************************************)
EXTENDS Integers, Sequences, FiniteSets, TLC

(***************************************************************************)
(* Bounds of the model.                                                    *)
(***************************************************************************)
\* total number of createTopicReply calls that get past the type check
MaxCalls == 2
\* number of times the wall clock advances
MaxTicks == 1
\* edit calls in a behaviour
MaxEdits == 2

(***************************************************************************)
(* Enumerations of the source.                                             *)
(***************************************************************************)
ReplyStateNormal == 0
AdminSilentTopic == 5
UserDelete == 6
AdminDelete == 7

TopicDisplayBan == 0
TopicDisplayNormal == 1
TopicDisplayReview == 2

TypeGroup == "group"
TypeSubject == "subject"
Types == {TypeGroup, TypeSubject}

(***************************************************************************)
(* Exact arithmetic for Math.pow(h + 0.1, 1.8).  TLC's integers are 32 bit *)
(* wide and the ninth power of a time difference is not, so naturals are   *)
(* kept as little-endian digit sequences (no leading zero digit; <<>> is   *)
(* zero) and only ever multiplied by a small factor.                       *)
(***************************************************************************)
BigBase == 10 * 100

RECURSIVE BigOf(_)
BigOf(n) ==
  IF n = 0 THEN <<>> ELSE <<n % BigBase>> \o BigOf(n \div BigBase)

RECURSIVE BigMulSmall(_, _, _)
\* a * d + carry, for a small factor d > 0
BigMulSmall(a, d, carry) ==
  IF a = <<>> THEN BigOf(carry)
  ELSE LET v == Head(a) * d + carry
       IN  <<v % BigBase>> \o BigMulSmall(Tail(a), d, v \div BigBase)

RECURSIVE BigTimesPow(_, _, _)
\* a * d^k, for d > 0
BigTimesPow(a, d, k) ==
  IF k = 0 THEN a ELSE BigTimesPow(BigMulSmall(a, d, 0), d, k - 1)

RECURSIVE BigCmpFrom(_, _, _)
\* compares digits i, i-1, ..., 1 of two numbers of the same length
BigCmpFrom(a, b, i) ==
  IF i = 0 THEN 0
  ELSE IF a[i] < b[i] THEN -1
  ELSE IF a[i] > b[i] THEN 1
  ELSE BigCmpFrom(a, b, i - 1)

\* -1, 0 or 1 as a < b, a = b, a > b
BigCmp(a, b) ==
  IF Len(a) < Len(b) THEN -1
  ELSE IF Len(a) > Len(b) THEN 1
  ELSE BigCmpFrom(a, b, Len(a))

(***************************************************************************)
(* scoredUpdateTime, lines 435-446.                                        *)
(*   $created_hours + 0.1 = u / 3600       with u = timestamp - dateline   *)
(*                                               + 360                     *)
(*   $base_score = (u/3600)^(9/5) / replies * 200                          *)
(* so for an integer D >= 0                                                *)
(*   D >= $base_score  <=>  (D*replies)^5 * 200^4 * 18^9 >= u^9            *)
(* (3600^9 / 200^5 = 200^4 * 18^9).                                        *)
(***************************************************************************)
SecondsPerHour == 3600
ScoreFactor == 200
GravityNum == 9
GravityDen == 5
\* the 0.1 hour added to $created_hours, in seconds
TenthHour == SecondsPerHour \div 10
\* the id list of the ranking test, [364]
RankingIDs == {364}

\* IEEE not-a-number, kept as an integer no timestamp of the model can take
NaN == 0 - 2^30
IsNaN(x) == x = NaN

\* u^9, the right-hand side of the comparison
AgePower(u) == BigTimesPow(<<1>>, u, GravityNum)

\* (D*replies)^5 * 200^4 * 18^9, the left-hand side, for D > 0
ScorePower(D, replies) ==
  BigTimesPow(
    BigTimesPow(
      BigTimesPow(<<1>>, D * replies, GravityDen),
      ScoreFactor, GravityNum - GravityDen),
    SecondsPerHour \div ScoreFactor, GravityNum)

\* sign of D - $base_score
ScoreCmp(D, u, replies) ==
  IF D = 0 THEN (IF u = 0 THEN 0 ELSE -1)
  ELSE BigCmp(ScorePower(D, replies), AgePower(u))

RECURSIVE ScoreUpper(_, _, _)
\* some D >= $base_score
ScoreUpper(D, u, replies) ==
  IF ScoreCmp(D, u, replies) >= 0 THEN D ELSE ScoreUpper(2 * D, u, replies)

RECURSIVE ScoreSearch(_, _, _, _)
\* the least D in lo..hi with D >= $base_score (hi is one)
ScoreSearch(lo, hi, u, replies) ==
  IF lo = hi THEN lo
  ELSE LET mid == (lo + hi) \div 2
       IN  IF ScoreCmp(mid, u, replies) >= 0
           THEN ScoreSearch(lo, mid, u, replies)
           ELSE ScoreSearch(mid + 1, hi, u, replies)

\* ceiling of $base_score, for u >= 0
BaseScoreCeil(u, replies) == ScoreSearch(0, ScoreUpper(1, u, replies), u, replies)

\* floor of $base_score, for u >= 0
BaseScoreFloor(u, replies) ==
  LET c == BaseScoreCeil(u, replies)
  IN  IF ScoreCmp(c, u, replies) = 0 THEN c ELSE c - 1

\* Math.trunc(timestamp - $base_score): truncation is toward zero
ScoredLastpost(timestamp, u, replies) ==
  LET c == BaseScoreCeil(u, replies)
  IN  IF timestamp - c >= 0 THEN timestamp - c
      ELSE timestamp - BaseScoreFloor(u, replies)

\* Math.min(a, b)
MathMin(a, b) == IF a < b THEN a ELSE b

\* a slip of sign: the score is added and the later of the two instants kept
scoredUpdateTimeAhead(timestamp, type, main_info) ==
  IF type = TypeGroup /\ main_info.id \in RankingIDs /\ main_info.replies > 0
  THEN LET u == (timestamp - main_info.dateline) + TenthHour
       IN  IF u < 0 THEN NaN ELSE timestamp + BaseScoreCeil(u, main_info.replies)
  ELSE timestamp

\* a slip of rounding: the score is truncated before it is subtracted
scoredUpdateTimeTruncScore(timestamp, type, main_info) ==
  IF type = TypeGroup /\ main_info.id \in RankingIDs /\ main_info.replies > 0
  THEN LET u == (timestamp - main_info.dateline) + TenthHour
       IN  IF u < 0 THEN NaN
           ELSE MathMin(timestamp - BaseScoreFloor(u, main_info.replies), timestamp)
  ELSE timestamp

scoredUpdateTime(timestamp, type, main_info) ==
  IF type = TypeGroup /\ main_info.id \in RankingIDs /\ main_info.replies > 0
  THEN LET u == (timestamp - main_info.dateline) + TenthHour
       IN  IF u < 0
           THEN NaN   \* Math.pow of a negative base to the power 1.8
           ELSE MathMin(ScoredLastpost(timestamp, u, main_info.replies), timestamp)
  ELSE timestamp

(***************************************************************************)
(* The store: the GroupTopic rows, keyed by id, and the GroupPost rows.    *)
(* fetchUserX and the visibility policy live outside these sources.        *)
(***************************************************************************)
VARIABLES
  topics,       \* GroupTopic rows: id -> row
  posts,        \* GroupPost rows (committed)
  nextPostID,   \* the auto-increment of GroupPost.id
  clock,        \* the wall clock, in unix seconds
  ticks,        \* how often the clock advanced
  calls,        \* createTopicReply calls that opened a transaction
  pc,           \* per caller: its place in createTopicReply
  arg,          \* per caller: the arguments of its call
  now,          \* per caller: now.unix(), line 392
  topic,        \* per caller: the row findOneOrFail returned, line 398
  post,         \* per caller: the row save returned, line 401
  topicUpdate,  \* per caller: the partial row of line 410
  ret,          \* per caller: how its last call ended
  detail,       \* the last fetchDetail call and what it returned
  list,         \* the last fetchTopicList call and what it returned
  subjects,     \* Subject rows (committed), by id
  subjectRevs,  \* SubjectRev rows (committed)
  subjectFields,\* SubjectFields rows (committed), by subject_id
  editing       \* the caller of edit: its place, arguments, locals and result

vars == <<topics, posts, nextPostID, clock, ticks, calls, pc, arg, now, topic,
          post, topicUpdate, ret, detail, list, subjects, subjectRevs,
          subjectFields, editing>>

\* what createTopicReply and fetchDetail leave alone
otherVars == <<list, subjects, subjectRevs, subjectFields, editing>>

\* the concurrent callers of createTopicReply
Procs == {1, 2}

\* steps the clock may take between two events
TickSteps == {100, SecondsPerHour}

\* what the callers pass
TopicIDArgs == {2, 3, 9, 364}
ParentIDArgs == {0, 6}
Content == "text"

TopicRow(id, gid, state, display, replies, dateline) ==
  [id |-> id, gid |-> gid, creatorID |-> 1, title |-> "title",
   state |-> state, display |-> display, replies |-> replies,
   dateline |-> dateline, lastpost |-> dateline]

PostRow(id, topicID, related, state, dateline) ==
  [id |-> id, topicID |-> topicID, uid |-> 1, related |-> related,
   state |-> state, dateline |-> dateline, content |-> Content]

\* Topic 364 lives in group 1 and starts with r364 replies under its top
\* post; topics 3 and 4 live in group 1 too and have a top post only, topic 4
\* being older and under review.  Topic 2 lives in group 364, is sunk (its
\* state) and banned (its display), and has a reply (row 2), two sub-replies
\* of it (row 3, deleted, and row 8), a reply to the sub-reply (row 4) and a
\* reply to the top post (row 7).
InitTopics(r364, StartTime) ==
  (2 :> TopicRow(2, 364, AdminSilentTopic, TopicDisplayBan, 5, StartTime))
  @@ (3 :> TopicRow(3, 1, ReplyStateNormal, TopicDisplayNormal, 0, StartTime))
  @@ (4 :> TopicRow(4, 1, ReplyStateNormal, TopicDisplayReview, 0, StartTime - 100))
  @@ (364 :> TopicRow(364, 1, ReplyStateNormal, TopicDisplayNormal, r364, StartTime))

InitPosts(r364, StartTime) ==
  { PostRow(1, 2, 0, ReplyStateNormal, StartTime),
    PostRow(2, 2, 0, ReplyStateNormal, StartTime),
    PostRow(3, 2, 2, UserDelete, StartTime),
    PostRow(4, 2, 3, ReplyStateNormal, StartTime),
    PostRow(5, 364, 0, ReplyStateNormal, StartTime),
    PostRow(7, 2, 1, ReplyStateNormal, StartTime),
    PostRow(8, 2, 2, ReplyStateNormal, StartTime),
    PostRow(9, 3, 0, ReplyStateNormal, StartTime),
    PostRow(10, 4, 0, ReplyStateNormal, StartTime - 100) }
  \cup (IF r364 = 1 THEN {PostRow(6, 364, 0, ReplyStateNormal, StartTime)} ELSE {})

NoArg == [topicType |-> TypeGroup, topicID |-> 0, userID |-> 0, parentID |-> 0,
          state |-> ReplyStateNormal]
NoTopic == TopicRow(0, 0, 0, 0, 0, 0)
NoPost == PostRow(0, 0, 0, 0, 0)
NoUpdate == [replies |-> 0]
NoRet == [kind |-> "none"]
NoDetail == [called |-> FALSE]
NoList == [called |-> FALSE]

\* Subject 184017 is stored with its fields row, subject 354677 is stored
\* without one, subject 12 is stored outside the sandbox.
SubjectRow(id, name, infobox) ==
  [id |-> id, typeID |-> 2, name |-> name, nameCN |-> "", platform |-> 1,
   fieldEps |-> 0, fieldSummary |-> "", fieldInfobox |-> infobox,
   updatedAt |-> 0]

InitSubjects ==
  (12 :> SubjectRow(12, "old", "old"))
  @@ (184017 :> SubjectRow(184017, "old", "old"))
  @@ (354677 :> SubjectRow(354677, "old", "old"))

InitSubjectFields ==
  (12 :> [subject_id |-> 12, fieldDate |-> "old"])
  @@ (184017 :> [subject_id |-> 184017, fieldDate |-> "old"])

\* what the callers of edit pass: 12 is outside the sandbox, and no subject
\* 309445 is stored
SubjectIDArgs == {12, 184017, 309445, 354677}
Infoboxes == {"infobox", "plain", "broken"}
Undefined == "undefined"
DateArgs == {Undefined, "2021-02-03"}

NoEditArg == [subjectID |-> 0, name |-> "", infobox |-> "", platform |-> 0,
              summary |-> "", commitMessage |-> "", date |-> Undefined,
              userID |-> 0, now |-> 0]
NoSubject == SubjectRow(0, "", "")
NoRev == [revID |-> 0]
NoEdit == [pc |-> "idle", edits |-> 0, arg |-> NoEditArg, s |-> NoSubject,
           rev |-> NoRev, subjectUpdate |-> [id |-> 0],
           fieldsUpdate |-> [subject_id |-> 0], statements |-> <<>>,
           ret |-> NoRet]

Init ==
  /\ \E r364 \in {0, 1} :
       /\ topics = InitTopics(r364, 1000)
       /\ posts = InitPosts(r364, 1000)
  /\ nextPostID = 11
  /\ clock = 1000
  /\ ticks = 0
  /\ calls = 0
  /\ pc = [p \in Procs |-> "idle"]
  /\ arg = [p \in Procs |-> NoArg]
  /\ now = [p \in Procs |-> 0]
  /\ topic = [p \in Procs |-> NoTopic]
  /\ post = [p \in Procs |-> NoPost]
  /\ topicUpdate = [p \in Procs |-> NoUpdate]
  /\ ret = [p \in Procs |-> NoRet]
  /\ detail = NoDetail
  /\ list = NoList
  /\ subjects = InitSubjects
  /\ subjectRevs = {}
  /\ subjectFields = InitSubjectFields
  /\ editing = NoEdit

Tick ==
  /\ ticks < MaxTicks
  /\ \E d \in TickSteps : clock' = clock + d
  /\ ticks' = ticks + 1
  /\ UNCHANGED <<topics, posts, nextPostID, calls, pc, arg, now, topic, post,
                 topicUpdate, ret, detail, otherVars>>

(***************************************************************************)
(* createTopicReply, lines 373-433.  Each await is a step of its own; the  *)
(* rows written inside AppDataSource.transaction reach the store together  *)
(* when the callback returns, and not at all when it throws.               *)
(***************************************************************************)
\* the caller is back where it started, its call having ended with r
Ended(p, r) ==
  /\ pc' = [pc EXCEPT ![p] = "idle"]
  /\ ret' = [ret EXCEPT ![p] = r]
  /\ arg' = [arg EXCEPT ![p] = NoArg]
  /\ now' = [now EXCEPT ![p] = 0]
  /\ topic' = [topic EXCEPT ![p] = NoTopic]
  /\ post' = [post EXCEPT ![p] = NoPost]
  /\ topicUpdate' = [topicUpdate EXCEPT ![p] = NoUpdate]

Thrown(name) == [kind |-> name]

\* the type check forgotten: a call for any type opens its transaction
CallAnyType(p) ==
  /\ pc[p] = "idle"
  /\ p = 2 => pc[1] # "idle"
  /\ \E topicType \in Types, topicID \in TopicIDArgs, parentID \in ParentIDArgs :
       /\ calls < MaxCalls
       /\ calls' = calls + 1
       /\ arg' = [arg EXCEPT ![p] =
                    [topicType |-> topicType, topicID |-> topicID,
                     userID |-> 1, parentID |-> parentID,
                     state |-> ReplyStateNormal]]
       /\ now' = [now EXCEPT ![p] = clock]
       /\ pc' = [pc EXCEPT ![p] = "findTopic"]
       /\ ret' = [ret EXCEPT ![p] = NoRet]
       /\ UNCHANGED <<topics, posts, nextPostID, clock, ticks, topic, post,
                      topicUpdate, detail, otherVars>>

\* lines 388-392: the type check, then now = dayjs()
Call(p) ==
  /\ pc[p] = "idle"
  \* the callers are interchangeable: the second one starts while the first runs
  /\ p = 2 => pc[1] # "idle"
  /\ \E topicType \in Types, topicID \in TopicIDArgs, parentID \in ParentIDArgs :
       IF topicType # TypeGroup
       THEN /\ ret' = [ret EXCEPT ![p] = Thrown("UnimplementedError")]
            /\ UNCHANGED <<topics, posts, nextPostID, clock, ticks, calls, pc,
                           arg, now, topic, post, topicUpdate, detail, otherVars>>
       ELSE /\ calls < MaxCalls
            /\ calls' = calls + 1
            /\ arg' = [arg EXCEPT ![p] =
                         [topicType |-> topicType, topicID |-> topicID,
                          userID |-> 1, parentID |-> parentID,
                          state |-> ReplyStateNormal]]
            /\ now' = [now EXCEPT ![p] = clock]
            /\ pc' = [pc EXCEPT ![p] = "findTopic"]
            /\ ret' = [ret EXCEPT ![p] = NoRet]
            /\ UNCHANGED <<topics, posts, nextPostID, clock, ticks, topic, post,
                           topicUpdate, detail, otherVars>>

\* line 398: GroupTopicRepo.findOneOrFail
FindTopic(p) ==
  /\ pc[p] = "findTopic"
  /\ IF arg[p].topicID \in DOMAIN topics
     THEN /\ topic' = [topic EXCEPT ![p] = topics[arg[p].topicID]]
          /\ pc' = [pc EXCEPT ![p] = "save"]
          /\ UNCHANGED <<arg, now, post, topicUpdate, ret>>
     ELSE Ended(p, Thrown("EntityNotFoundError"))
  /\ UNCHANGED <<topics, posts, nextPostID, clock, ticks, calls, detail, otherVars>>

\* the row of lines 401-408, with the id the store gives it
NewPost(id, a, dateline) ==
  [id |-> id, topicID |-> a.topicID, uid |-> a.userID, related |-> a.parentID,
   state |-> a.state, dateline |-> dateline, content |-> Content]

\* the row saved outside the transaction: it is in the store at once
SavePostAtOnce(p) ==
  /\ pc[p] = "save"
  /\ post' = [post EXCEPT ![p] = NewPost(nextPostID, arg[p], now[p])]
  /\ posts' = posts \cup {NewPost(nextPostID, arg[p], now[p])}
  /\ nextPostID' = nextPostID + 1
  /\ pc' = [pc EXCEPT ![p] = "update"]
  /\ UNCHANGED <<arg, now, topic, topicUpdate, ret>>
  /\ UNCHANGED <<topics, clock, ticks, calls, detail, otherVars>>

\* lines 401-408: GroupPostRepo.save, which may throw
SavePost(p) ==
  /\ pc[p] = "save"
  /\ \/ /\ post' = [post EXCEPT ![p] = NewPost(nextPostID, arg[p], now[p])]
        /\ nextPostID' = nextPostID + 1
        /\ pc' = [pc EXCEPT ![p] = "update"]
        /\ UNCHANGED <<arg, now, topic, topicUpdate, ret>>
     \/ /\ Ended(p, Thrown("QueryFailedError"))
        /\ UNCHANGED nextPostID
  /\ UNCHANGED <<topics, posts, clock, ticks, calls, detail, otherVars>>

\* the check of the topic's state forgotten
TopicUpdateAlways(timestamp, type, main_info) ==
  [replies |-> main_info.replies + 1,
   dateline |-> scoredUpdateTime(timestamp, type, main_info)]

\* lines 410-417: the partial row; a sunk topic's dateline stays undefined
TopicUpdateOf(timestamp, type, main_info) ==
  IF main_info.state # AdminSilentTopic
  THEN [replies |-> main_info.replies + 1,
        dateline |-> scoredUpdateTime(timestamp, type, main_info)]
  ELSE [replies |-> main_info.replies + 1]

\* the store takes no NaN for a numeric column: the statement throws
Storable(u) == "dateline" \in DOMAIN u => ~IsNaN(u.dateline)

\* line 419: GroupTopicRepo.update, which may throw
UpdateTopic(p) ==
  /\ pc[p] = "update"
  /\ LET u == TopicUpdateOf(now[p], arg[p].topicType, topic[p])
     IN  \/ /\ Storable(u)
            /\ topicUpdate' = [topicUpdate EXCEPT ![p] = u]
            /\ pc' = [pc EXCEPT ![p] = "commit"]
            /\ UNCHANGED <<arg, now, topic, post, ret>>
         \/ Ended(p, Thrown("QueryFailedError"))
  /\ UNCHANGED <<topics, posts, nextPostID, clock, ticks, calls, detail, otherVars>>

\* update(row, partial): the columns the partial row defines are written
UpdatedRow(row, u) ==
  [f \in DOMAIN row |-> IF f \in DOMAIN u THEN u[f] ELSE row[f]]

\* what the store holds once the transaction of caller p has committed
CommittedTopics(T, id, u) == [T EXCEPT ![id] = UpdatedRow(T[id], u)]
CommittedPosts(P, row) == P \cup {row}

\* lines 394-422: the callback returned; the transaction commits, or fails to
Commit(p) ==
  /\ pc[p] = "commit"
  /\ \/ /\ topics' = CommittedTopics(topics, topic[p].id, topicUpdate[p])
        /\ posts' = CommittedPosts(posts, post[p])
        /\ pc' = [pc EXCEPT ![p] = "fetchUser"]
        /\ UNCHANGED <<arg, now, topic, post, topicUpdate, ret>>
     \/ /\ Ended(p, Thrown("QueryFailedError"))
        /\ UNCHANGED <<topics, posts>>
  /\ UNCHANGED <<nextPostID, clock, ticks, calls, detail, otherVars>>

\* lines 424-432: the IPost returned, without its user
IPostOf(row) ==
  [kind |-> "ok", id |-> row.id, type |-> TypeGroup, createdAt |-> row.dateline,
   state |-> row.state, topicID |-> row.topicID, content |-> row.content]

\* lines 424-432: fetchUserX, which throws for a user it does not find
Return(p) ==
  /\ pc[p] = "fetchUser"
  /\ \/ Ended(p, IPostOf(post[p]))
     \/ Ended(p, Thrown("UnexpectedNotFoundError"))
  /\ UNCHANGED <<topics, posts, nextPostID, clock, ticks, calls, detail, otherVars>>

(***************************************************************************)
(* The visibility policy (@app/lib/topic/display) and the actor are not    *)
(* part of these sources: an actor is either an ordinary user or one with  *)
(* the elevated role, which also lists and reads banned and pending topics.*)
(***************************************************************************)
Auths == {[elevated |-> FALSE], [elevated |-> TRUE]}

ListTopicDisplays(auth) ==
  IF auth.elevated
  THEN {TopicDisplayBan, TopicDisplayNormal, TopicDisplayReview}
  ELSE {TopicDisplayNormal}

CanViewTopicContent(auth, t) == t.display \in ListTopicDisplays(auth)

\* redaction blanks the text of a deleted reply and keeps everything else
filterSubReply(x) ==
  IF x.state \in {UserDelete, AdminDelete} THEN [x EXCEPT !.text = ""] ELSE x

filterReply(x) ==
  [filterSubReply(x) EXCEPT
     !.replies = [i \in 1..Len(x.replies) |-> filterSubReply(x.replies[i])]]

(***************************************************************************)
(* fetchDetail, lines 246-316.                                             *)
(***************************************************************************)
RECURSIVE ByID(_)
\* the rows of a set in the order of their primary key
ByID(S) ==
  IF S = {} THEN <<>>
  ELSE LET m == CHOOSE x \in S : \A y \in S : x.id <= y.id
       IN  <<m>> \o ByID(S \ {m})

\* lines 263-267: GroupPostRepo.find({ where: { topicID } })
FindPosts(P, topicID) == ByID({x \in P : x.topicID = topicID})

IsSub(x) == x.related # 0
IsTopLevel(x) == x.related = 0

\* lines 277-284
SubReplyOf(x) ==
  [id |-> x.id, repliedTo |-> x.related, creatorID |-> x.uid, text |-> x.content,
   state |-> x.state, createdAt |-> x.dateline]

\* lines 274-288: subReplies[key], the rows filed under x.related = key
SubRepliesAt(replies, key) ==
  LET filed == SelectSeq(replies, LAMBDA x : IsSub(x) /\ x.related = key)
  IN  [i \in 1..Len(filed) |-> SubReplyOf(filed[i])]

\* lines 292-302
ReplyOf(replies, x) ==
  [id |-> x.id, replies |-> SubRepliesAt(replies, x.id), creatorID |-> x.uid,
   text |-> x.content, state |-> x.state, createdAt |-> x.dateline,
   repliedTo |-> x.related]

\* the filter on related === 0 forgotten
TopLevelRepliesUnfiltered(replies) ==
  [i \in 1..Len(replies) |-> filterReply(ReplyOf(replies, replies[i]))]

\* lines 290-303
TopLevelReplies(replies) ==
  LET tops == SelectSeq(replies, IsTopLevel)
  IN  [i \in 1..Len(tops) |-> filterReply(ReplyOf(replies, tops[i]))]

Null == [kind |-> "null"]

\* the visibility check forgotten
fetchDetailUnchecked(T, P, auth, id) ==
  IF id \notin DOMAIN T THEN Null
  ELSE LET all == FindPosts(P, id)
       IN  IF all = <<>> THEN Thrown("UnexpectedNotFoundError")
           ELSE LET top == Head(all)
                    replies == Tail(all)
                IN  [kind |-> "ok", id |-> T[id].id, title |-> T[id].title,
                     parentID |-> T[id].gid, text |-> top.content,
                     display |-> T[id].display, state |-> T[id].state,
                     replies |-> TopLevelReplies(replies),
                     creatorID |-> top.uid, createdAt |-> top.dateline]

\* a topic without rows answered like a topic that does not exist
fetchDetailNullWithoutRows(T, P, auth, id) ==
  IF id \notin DOMAIN T THEN Null
  ELSE IF ~CanViewTopicContent(auth, T[id]) THEN Null
  ELSE LET all == FindPosts(P, id)
       IN  IF all = <<>> THEN Null
           ELSE LET top == Head(all)
                    replies == Tail(all)
                IN  [kind |-> "ok", id |-> T[id].id, title |-> T[id].title,
                     parentID |-> T[id].gid, text |-> top.content,
                     display |-> T[id].display, state |-> T[id].state,
                     replies |-> TopLevelReplies(replies),
                     creatorID |-> top.uid, createdAt |-> top.dateline]

\* replies.shift() forgotten: the top post stays among the replies
fetchDetailUnshifted(T, P, auth, id) ==
  IF id \notin DOMAIN T THEN Null
  ELSE IF ~CanViewTopicContent(auth, T[id]) THEN Null
  ELSE LET all == FindPosts(P, id)
       IN  IF all = <<>> THEN Thrown("UnexpectedNotFoundError")
           ELSE LET top == Head(all)
                IN  [kind |-> "ok", id |-> T[id].id, title |-> T[id].title,
                     parentID |-> T[id].gid, text |-> top.content,
                     display |-> T[id].display, state |-> T[id].state,
                     replies |-> TopLevelReplies(all),
                     creatorID |-> top.uid, createdAt |-> top.dateline]

\* fetchDetail on the store (T, P)
fetchDetailOn(T, P, auth, id) ==
  IF id \notin DOMAIN T THEN Null
  ELSE IF ~CanViewTopicContent(auth, T[id]) THEN Null
  ELSE LET all == FindPosts(P, id)
       IN  IF all = <<>> THEN Thrown("UnexpectedNotFoundError")
           ELSE LET top == Head(all)
                    replies == Tail(all)
                IN  [kind |-> "ok", id |-> T[id].id, title |-> T[id].title,
                     parentID |-> T[id].gid, text |-> top.content,
                     display |-> T[id].display, state |-> T[id].state,
                     replies |-> TopLevelReplies(replies),
                     creatorID |-> top.uid, createdAt |-> top.dateline]

fetchDetail(auth, id) == fetchDetailOn(topics, posts, auth, id)

\* replies.shift() taking the top post out of the store itself
FetchDetailShiftingStore ==
  /\ \E auth \in Auths, id \in TopicIDArgs :
       /\ detail' = [called |-> TRUE, auth |-> auth, id |-> id,
                     out |-> fetchDetail(auth, id)]
       /\ posts' = IF fetchDetail(auth, id).kind = "ok"
                   THEN posts \ {Head(FindPosts(posts, id))}
                   ELSE posts
  /\ UNCHANGED <<topics, nextPostID, clock, ticks, calls, pc, arg, now,
                 topic, post, topicUpdate, ret, otherVars>>

FetchDetail ==
  /\ \E auth \in Auths, id \in TopicIDArgs :
       detail' = [called |-> TRUE, auth |-> auth, id |-> id,
                  out |-> fetchDetail(auth, id)]
  /\ UNCHANGED <<topics, posts, nextPostID, clock, ticks, calls, pc, arg, now,
                 topic, post, topicUpdate, ret, otherVars>>

(***************************************************************************)
(* The ITopic view of a row that fetchTopicList returns, lines 353-363.    *)
(***************************************************************************)
ITopicOf(x) ==
  [id |-> x.id, parentID |-> x.gid, creatorID |-> x.creatorID, title |-> x.title,
   createdAt |-> x.dateline, updatedAt |-> x.lastpost, repliesCount |-> x.replies]

(***************************************************************************)
(* fetchTopicList, lines 328-365.  The two queries are answered from the   *)
(* same committed rows.                                                    *)
(***************************************************************************)
\* lines 338-341: the rows that match where = { gid, display: In(...) }
Where(T, gid, displays) ==
  {T[t] : t \in {u \in DOMAIN T : T[u].gid = gid /\ T[u].display \in displays}}

RECURSIVE Orders(_)
\* line 345: order = { dateline: 'desc' } names no second key, so rows of
\* equal dateline come in whichever order the store finds them
Orders(S) ==
  IF S = {} THEN {<<>>}
  ELSE UNION {{<<x>> \o o : o \in Orders(S \ {x})} :
                x \in {y \in S : \A z \in S : z.dateline <= y.dateline}}

\* lines 346-347: skip and take.  The query builder tests take for truth
\* before it writes the LIMIT, so a take of 0 either gives no row or sets no
\* limit, depending on its version.
FindPages(order, skip, take) ==
  {SubSeq(order, skip + 1, MathMin(skip + take, Len(order)))}
  \cup (IF take = 0 THEN {SubSeq(order, skip + 1, Len(order))} ELSE {})

Listed(total, page) ==
  [kind |-> "ok", total |-> total,
   topics |-> [i \in 1..Len(page) |-> ITopicOf(page[i])]]

\* every way a call of fetchTopicList on the topics T may end, with the
\* queries it issued; a negative skip or take makes the find statement fail
fetchTopicList(T, auth, type, id, limit, offset) ==
  IF type # TypeGroup
  THEN {[queries |-> <<>>, out |-> Thrown("UnimplementedError")]}
  ELSE LET where == Where(T, id, ListTopicDisplays(auth))
           total == Cardinality(where)
       IN  IF limit < 0 \/ offset < 0
           THEN {[queries |-> <<"count", "find">>,
                  out |-> Thrown("QueryFailedError")]}
           ELSE {[queries |-> <<"count", "find">>, out |-> Listed(total, page)] :
                   page \in UNION {FindPages(o, offset, limit) :
                                     o \in Orders(where)}}

\* what the callers of fetchTopicList pass; 30 and 0 are the defaults
GroupIDArgs == {1, 364}
LimitArgs == {0 - 1, 0, 2, 30}
OffsetArgs == {0 - 1, 0, 2}

\* a call of fetchTopicList with a page out of limits and offsets
FetchTopicListOf(limits, offsets) ==
  /\ \E auth \in Auths, type \in Types, id \in GroupIDArgs,
        limit \in limits, offset \in offsets :
       \E r \in fetchTopicList(topics, auth, type, id, limit, offset) :
         list' = [called |-> TRUE, auth |-> auth, type |-> type, id |-> id,
                  limit |-> limit, offset |-> offset, queries |-> r.queries,
                  out |-> r.out]
  /\ UNCHANGED <<topics, posts, nextPostID, clock, ticks, calls, pc, arg, now,
                 topic, post, topicUpdate, ret, detail, subjects, subjectRevs,
                 subjectFields, editing>>

FetchTopicList == FetchTopicListOf(LimitArgs, OffsetArgs)

\* line 332: a call that leaves the page to its defaults
FetchFirstPage == FetchTopicListOf({30}, {0})

(***************************************************************************)
(* edit, lines 45-132.  The wiki parser and extractDate are not part of    *)
(* these sources: the infobox "broken" does not parse; "infobox" parses to *)
(* the fields nameCN (for the key of line 137) and eps (for a key of line  *)
(* 144) and carries a date, "plain" parses to a field eps that is no       *)
(* number.                                                                 *)
(***************************************************************************)
SandBox == {184017, 354677, 354667, 309445, 363612}

WikiParses(infobox) == infobox # "broken"

wiki(infobox) ==
  IF infobox = "infobox"
  THEN [data |-> <<[key |-> "nameCN", value |-> "cn"],
                   [key |-> "eps", value |-> "12"]>>, date |-> "2020-01-02"]
  ELSE [data |-> <<[key |-> "eps", value |-> "many"]>>, date |-> "0000-00-00"]

\* Array.prototype.find: the first element with one of the keys, if any
FindKey(w, keys) ==
  LET found == SelectSeq(w.data, LAMBDA v : v.key \in keys)
  IN  IF found = <<>> THEN Undefined ELSE Head(found).value

\* lines 134-140
extractNameCN(w) ==
  IF FindKey(w, {"nameCN"}) = Undefined THEN "" ELSE FindKey(w, {"nameCN"})

\* Number.parseInt of the values that occur
ParseInt(v) == IF v = "12" THEN 12 ELSE NaN

\* lines 142-152
extractEpisode(w) ==
  LET v == FindKey(w, {"eps"})
  IN  IF v = Undefined \/ v = "" THEN 0
      ELSE IF IsNaN(ParseInt(v)) \/ ParseInt(v) = 0 THEN 0 ELSE ParseInt(v)

extractDate(w) == w.date

\* what edit leaves alone, and the rows it writes
topicVars == <<topics, posts, nextPostID, clock, ticks, calls, pc, arg, now,
               topic, post, topicUpdate, ret, detail, list>>
subjectStore == <<subjects, subjectRevs, subjectFields>>

\* the call e has ended with r; its arguments and statements stay on record
EditEnded(e, r) ==
  [e EXCEPT !.pc = "idle", !.ret = r, !.s = NoSubject, !.rev = NoRev,
            !.subjectUpdate = [id |-> 0], !.fieldsUpdate = [subject_id |-> 0]]

\* the statement st has been issued
Issued(e, st) == [e EXCEPT !.statements = Append(@, st)]

\* a call that got past the sandbox test without it
EditCallUnguarded ==
  /\ editing.pc = "idle"
  /\ editing.edits < MaxEdits
  /\ \E subjectID \in SubjectIDArgs, infobox \in Infoboxes, date \in DateArgs :
       LET a == [subjectID |-> subjectID, name |-> "new", infobox |-> infobox,
                 platform |-> 2, summary |-> "summary",
                 commitMessage |-> "message", date |-> date, userID |-> 1,
                 now |-> clock]
           e == [NoEdit EXCEPT !.edits = editing.edits + 1, !.arg = a]
       IN  IF ~WikiParses(infobox)
           THEN editing' = [e EXCEPT !.ret = Thrown("InvalidWikiSyntaxError")]
           ELSE editing' = [e EXCEPT !.pc = "findSubject"]
  /\ UNCHANGED <<topicVars, subjectStore>>

\* lines 45-88: the sandbox test, the parse, and the transaction opened
EditCall ==
  /\ editing.pc = "idle"
  /\ editing.edits < MaxEdits
  /\ \E subjectID \in SubjectIDArgs, infobox \in Infoboxes, date \in DateArgs :
       LET a == [subjectID |-> subjectID, name |-> "new", infobox |-> infobox,
                 platform |-> 2, summary |-> "summary",
                 commitMessage |-> "message", date |-> date, userID |-> 1,
                 now |-> clock]
           e == [NoEdit EXCEPT !.edits = editing.edits + 1, !.arg = a]
       IN  IF subjectID \notin SandBox
           THEN editing' = [e EXCEPT !.ret = [kind |-> "ok"]]
           ELSE IF ~WikiParses(infobox)
           THEN editing' = [e EXCEPT !.ret = Thrown("InvalidWikiSyntaxError")]
           ELSE editing' = [e EXCEPT !.pc = "findSubject"]
  /\ UNCHANGED <<topicVars, subjectStore>>

\* line 93: SubjectRepo.findOneByOrFail
EditFindSubject ==
  /\ editing.pc = "findSubject"
  /\ LET e == Issued(editing, "findOneByOrFail")
     IN  IF editing.arg.subjectID \in DOMAIN subjects
         THEN editing' = [e EXCEPT !.s = subjects[editing.arg.subjectID],
                                   !.pc = "insertRev"]
         ELSE editing' = EditEnded(e, Thrown("EntityNotFoundError"))
  /\ UNCHANGED <<topicVars, subjectStore>>

\* the row of lines 95-106, with the id the store gives it
NewRev(id, a, s) ==
  [revID |-> id, subjectID |-> a.subjectID, summary |-> a.summary,
   infobox |-> a.infobox, creatorID |-> a.userID, typeID |-> s.typeID,
   name |-> a.name, platform |-> a.platform,
   nameCN |-> extractNameCN(wiki(a.infobox)), createdAt |-> a.now,
   commitMessage |-> a.commitMessage]

\* lines 95-106: SubjectRevRepo.insert, which may throw
EditInsertRev ==
  /\ editing.pc = "insertRev"
  /\ LET e == Issued(editing, "insert")
     IN  \/ editing' =
              [e EXCEPT !.rev = NewRev(Cardinality(subjectRevs) + 1,
                                       editing.arg, editing.s),
                        !.pc = "updateSubject"]
         \/ editing' = EditEnded(e, Thrown("QueryFailedError"))
  /\ UNCHANGED <<topicVars, subjectStore>>

\* lines 108-121: the criteria and the partial row
SubjectUpdateOf(a) ==
  [id |-> a.subjectID, platform |-> a.platform, name |-> a.name,
   fieldEps |-> extractEpisode(wiki(a.infobox)),
   nameCN |-> extractNameCN(wiki(a.infobox)), fieldSummary |-> a.summary,
   fieldInfobox |-> a.infobox, updatedAt |-> a.now]

\* lines 108-121: SubjectRepo.update, which may throw
EditUpdateSubject ==
  /\ editing.pc = "updateSubject"
  /\ LET e == Issued(editing, "update")
     IN  \/ editing' = [e EXCEPT !.subjectUpdate = SubjectUpdateOf(editing.arg),
                                 !.pc = "updateFields"]
         \/ editing' = EditEnded(e, Thrown("QueryFailedError"))
  /\ UNCHANGED <<topicVars, subjectStore>>

\* lines 123-130: the criteria and the partial row
FieldsUpdateOf(a) ==
  [subject_id |-> a.subjectID,
   fieldDate |-> IF a.date # Undefined THEN a.date
                 ELSE extractDate(wiki(a.infobox))]

\* lines 123-130: SubjectFieldRepo.update, which may throw
EditUpdateFields ==
  /\ editing.pc = "updateFields"
  /\ LET e == Issued(editing, "update")
     IN  \/ editing' = [e EXCEPT !.fieldsUpdate = FieldsUpdateOf(editing.arg),
                                 !.pc = "commit"]
         \/ editing' = EditEnded(e, Thrown("QueryFailedError"))
  /\ UNCHANGED <<topicVars, subjectStore>>

\* update(criteria, partial) on rows kept by their key: the row of that key,
\* if there is one, takes the columns of the partial row
UpdatedByKey(rows, key, u) ==
  IF key \in DOMAIN rows
  THEN [rows EXCEPT ![key] = UpdatedRow(@, u)]
  ELSE rows

\* lines 88-131: the callback returned; the transaction commits, or fails to
EditCommit ==
  /\ editing.pc = "commit"
  /\ \/ /\ subjectRevs' = subjectRevs \cup {editing.rev}
        /\ subjects' = UpdatedByKey(subjects, editing.subjectUpdate.id,
                                    editing.subjectUpdate)
        /\ subjectFields' = UpdatedByKey(subjectFields,
                                         editing.fieldsUpdate.subject_id,
                                         editing.fieldsUpdate)
        /\ editing' = EditEnded(editing, [kind |-> "ok"])
     \/ /\ editing' = EditEnded(editing, Thrown("QueryFailedError"))
        /\ UNCHANGED subjectStore
  /\ UNCHANGED topicVars

Next ==
  \/ Tick
  \/ \E p \in Procs : Call(p)
  \/ \E p \in Procs : FindTopic(p)
  \/ \E p \in Procs : SavePost(p)
  \/ \E p \in Procs : UpdateTopic(p)
  \/ \E p \in Procs : Commit(p)
  \/ \E p \in Procs : Return(p)

\* concurrent callers of createTopicReply
Spec == Init /\ [][Next]_vars

\* a reader of threads beside one caller of createTopicReply
NextDetail ==
  \/ Tick
  \/ Call(1)
  \/ FindTopic(1)
  \/ SavePost(1)
  \/ UpdateTopic(1)
  \/ Commit(1)
  \/ Return(1)
  \/ FetchDetail

SpecDetail == Init /\ [][NextDetail]_vars

\* a reader of first pages beside one caller of createTopicReply
NextList ==
  \/ Call(1)
  \/ FindTopic(1)
  \/ SavePost(1)
  \/ UpdateTopic(1)
  \/ Commit(1)
  \/ Return(1)
  \/ FetchFirstPage

SpecList == Init /\ [][NextList]_vars

\* The stores the readers are run on: topic 3 may have had a reply (row 11)
\* at 1100, and there may be a topic 9 in group 364 that lost all its rows.
InitRead ==
  /\ \E r364 \in {0, 1}, r3 \in {0, 1}, lost \in BOOLEAN :
       /\ topics =
            LET T == [InitTopics(r364, 1000) EXCEPT
                        ![3] = TopicRow(3, 1, ReplyStateNormal,
                                        TopicDisplayNormal, r3, 1000 + 100 * r3)]
            IN  IF lost
                THEN T @@ (9 :> TopicRow(9, 364, ReplyStateNormal,
                                         TopicDisplayNormal, 0, 1000))
                ELSE T
       /\ posts = InitPosts(r364, 1000)
                  \cup (IF r3 = 1
                        THEN {PostRow(11, 3, 0, ReplyStateNormal, 1100)}
                        ELSE {})
       /\ nextPostID = 11 + r3
  /\ clock = 1100
  /\ ticks = 0
  /\ calls = 0
  /\ pc = [p \in Procs |-> "idle"]
  /\ arg = [p \in Procs |-> NoArg]
  /\ now = [p \in Procs |-> 0]
  /\ topic = [p \in Procs |-> NoTopic]
  /\ post = [p \in Procs |-> NoPost]
  /\ topicUpdate = [p \in Procs |-> NoUpdate]
  /\ ret = [p \in Procs |-> NoRet]
  /\ detail = NoDetail
  /\ list = NoList
  /\ subjects = InitSubjects
  /\ subjectRevs = {}
  /\ subjectFields = InitSubjectFields
  /\ editing = NoEdit

\* the two readers on their own
NextRead ==
  \/ FetchDetail
  \/ FetchTopicList

SpecRead == InitRead /\ [][NextRead]_vars

\* the callers of edit, one after the other
NextEdit ==
  \/ Tick
  \/ EditCall
  \/ EditFindSubject
  \/ EditInsertRev
  \/ EditUpdateSubject
  \/ EditUpdateFields
  \/ EditCommit

SpecEdit == Init /\ [][NextEdit]_vars

(***************************************************************************)
(* Properties.                                                             *)
(***************************************************************************)
RowsOf(P, t) == {x \in P : x.topicID = t}
InFlight == {"findTopic", "save", "update", "commit"}
\* the callers whose transaction has built its partial topic row
Built == {p \in Procs : pc[p] \in {"commit", "fetchUser"}}
Rescored == {p \in Built : "dateline" \in DOMAIN topicUpdate[p]}

\* C1: every topic's repliesCount equals the number of its stored reply rows
\* minus one (the top post), in every state createTopicReply calls reach.
C1_RepliesCountIsRowsMinusOne ==
  \A t \in DOMAIN topics : topics[t].replies = Cardinality(RowsOf(posts, t)) - 1

\* C2: when two createTopicReply calls on the same topic have both committed,
\* repliesCount is exactly 2 higher than the count before them (the lower of
\* the two counts they read).
C2_NoLostIncrement ==
  (/\ pc[1] = "fetchUser" /\ pc[2] = "fetchUser"
   /\ topic[1].id = topic[2].id)
  => topics[topic[1].id].replies = MathMin(topic[1].replies, topic[2].replies) + 2

\* C3: createTopicReply is all-or-nothing: a call that fails before its commit
\* leaves the topic rows and the reply rows as they were, and the store only
\* ever changes by one commit that adds the caller's reply row together with
\* the counter (the count read plus one) and dateline it computed.
C3_AllOrNothing ==
  [][/\ \A p \in Procs :
          (pc[p] \in InFlight /\ pc'[p] = "idle")
          => (topics' = topics /\ posts' = posts)
     /\ (topics' # topics \/ posts' # posts)
        => \E p \in Procs :
             /\ pc[p] = "commit"
             /\ post[p] \notin posts
             /\ posts' = posts \cup {post[p]}
             /\ topics' = [topics EXCEPT ![topic[p].id] =
                             UpdatedRow(@, topicUpdate[p])]
             /\ topics'[topic[p].id].replies = topic[p].replies + 1]_vars

\* a call saved its reply row, failed afterwards, and no row of it is stored
C3_Witness ==
  /\ calls = 1
  /\ nextPostID = 12
  /\ \E p \in Procs : ret[p] = Thrown("QueryFailedError")
  /\ \A p \in Procs : pc[p] = "idle"
  /\ \A x \in posts : x.id < 11

\* C4: no createTopicReply call changes the dateline (sort timestamp) of a
\* topic whose state is AdminSilentTopic.
C4_SunkDatelineKept ==
  [][\A t \in DOMAIN topics :
       topics[t].state = AdminSilentTopic
       => topics'[t].dateline = topics[t].dateline]_vars

\* a reply to a sunk topic is stored, made later than the topic's dateline
C4_Witness ==
  \E t \in DOMAIN topics, x \in posts :
    /\ topics[t].state = AdminSilentTopic
    /\ x.topicID = t
    /\ x.id >= 11
    /\ x.dateline > topics[t].dateline

\* C5: the createdAt that the topic list reports for a topic (and that the
\* ranking takes as the origin of the topic's age) is the same before and
\* after every createTopicReply step.
C5_CreatedAtImmutable ==
  [][\A t \in DOMAIN topics :
       ITopicOf(topics'[t]).createdAt = ITopicOf(topics[t]).createdAt]_vars

\* C6: scoredUpdateTime never returns a number greater than its timestamp, and
\* the dateline a createTopicReply call writes is a number not greater than
\* the event time of that call.
C6_NeverLaterThanEvent ==
  /\ \A p \in Procs :
       pc[p] = "update"
       => LET v == scoredUpdateTime(now[p], arg[p].topicType, topic[p])
          IN  ~IsNaN(v) => v <= now[p]
  /\ \A p \in Rescored :
       /\ ~IsNaN(topicUpdate[p].dateline)
       /\ topicUpdate[p].dateline <= now[p]

\* a call whose decayed dateline lies before its event time
C6_Witness ==
  \E p \in Rescored :
    /\ topic[p].id \in RankingIDs
    /\ topic[p].replies > 0
    /\ topicUpdate[p].dateline < now[p]

\* C7: for a topic that is not sunk and either lies in a container (gid)
\* outside the ranking list or had a reply count of 0 when read,
\* createTopicReply sets the dateline exactly to the event time.
C7_PlainBumpOutsideList ==
  \A p \in Built :
    (/\ topic[p].state # AdminSilentTopic
     /\ (topic[p].gid \notin RankingIDs \/ topic[p].replies = 0))
    => topicUpdate[p].dateline = now[p]

\* the case of C8: the topic the ranking test selects, read with dateline 1000
\* and 1 reply, replied to at 4600
C8_Case(p) ==
  /\ p \in Rescored
  /\ topic[p].id \in RankingIDs
  /\ topic[p].dateline = 1000
  /\ topic[p].replies = 1
  /\ now[p] = 4600

\* C8 as stated: in that case the new dateline is 4379.
C8_Original == \A p \in Procs : C8_Case(p) => topicUpdate[p].dateline = 4379

\* C8 as amended: in that case the new dateline is 4362 (the score is
\* 1.1^1.8 * 200 = 237.4..., and 4600 - 237.4... truncates to 4362).
C8_Scenario == \A p \in Procs : C8_Case(p) => topicUpdate[p].dateline = 4362

C8_Witness == \E p \in Procs : C8_Case(p)

\* the ids of a sequence of replies
IDs(rs) == [i \in 1..Len(rs) |-> rs[i].id]
Ascending(ids) == \A i, j \in 1..Len(ids) : i < j => ids[i] < ids[j]
RECURSIVE SubIDs(_)
\* the ids of all sub-replies of a list of top-level replies
SubIDs(rs) == IF rs = <<>> THEN <<>> ELSE IDs(Head(rs).replies) \o SubIDs(Tail(rs))
Distinct(ids) == \A i, j \in 1..Len(ids) : i # j => ids[i] # ids[j]

\* C9: in every thread fetchDetail returns, each sub-reply has repliedTo equal
\* to the id of the top-level reply it is listed under, every top-level entry
\* has repliedTo = 0, no reply id occurs twice in the tree, and the top-level
\* list and every sub-reply list are in the order of the stored rows (by id).
C9_TreeWellFormed ==
  (detail.called /\ detail.out.kind = "ok")
  => LET rs == detail.out.replies
     IN  /\ \A i \in 1..Len(rs) : rs[i].repliedTo = 0
         /\ \A i \in 1..Len(rs) : \A j \in 1..Len(rs[i].replies) :
              rs[i].replies[j].repliedTo = rs[i].id
         /\ Distinct(IDs(rs) \o SubIDs(rs))
         /\ Ascending(IDs(rs))
         /\ \A i \in 1..Len(rs) : Ascending(IDs(rs[i].replies))

\* a thread with two top-level replies, one of them with two sub-replies
C9_Witness ==
  /\ detail.called
  /\ detail.out.kind = "ok"
  /\ Len(detail.out.replies) >= 2
  /\ \E i \in 1..Len(detail.out.replies) : Len(detail.out.replies[i].replies) >= 2

\* the store without topic id and its rows
WithoutTopic(T, id) == [t \in DOMAIN T \ {id} |-> T[t]]
WithoutRows(P, id) == {x \in P : x.topicID # id}

\* C10: fetchDetail answers null for a topic the actor may not view, as it does
\* for an id that names no topic, and what it returns to that actor for any id
\* is the same in the store without that topic, or without that topic's rows.
C10_HiddenIsAbsent ==
  /\ detail.called
     => /\ detail.id \notin DOMAIN topics => detail.out = Null
        /\ (/\ detail.id \in DOMAIN topics
            /\ ~CanViewTopicContent(detail.auth, topics[detail.id]))
           => detail.out = Null
  /\ \A auth \in Auths, id \in DOMAIN topics :
       ~CanViewTopicContent(auth, topics[id])
       => \A other \in TopicIDArgs :
            /\ fetchDetailOn(topics, posts, auth, other)
               = fetchDetailOn(WithoutTopic(topics, id), WithoutRows(posts, id),
                               auth, other)
            /\ fetchDetailOn(topics, posts, auth, other)
               = fetchDetailOn(topics, WithoutRows(posts, id), auth, other)

\* an ordinary user asked for the banned topic, which has rows, and got null
C10_Witness ==
  /\ detail.called
  /\ detail.id \in DOMAIN topics
  /\ ~CanViewTopicContent(detail.auth, topics[detail.id])
  /\ RowsOf(posts, detail.id) # {}
  /\ detail.out = Null

\* the topics of the listed container that the actor of the last
\* fetchTopicList call may see listed
Visible ==
  {t \in DOMAIN topics : /\ topics[t].gid = list.id
                          /\ topics[t].display \in ListTopicDisplays(list.auth)}
\* the last fetchTopicList call was one for a group with a page that starts
\* at offset >= 0 and holds limit >= 0 topics
ProperPage ==
  /\ list.called
  /\ list.type = TypeGroup
  /\ list.limit >= 0
  /\ list.offset >= 0
PageIDs == {list.out.topics[i].id : i \in 1..Len(list.out.topics)}
Clamp(n, lo, hi) == IF n < lo THEN lo ELSE IF n > hi THEN hi ELSE n

\* C11: for limit >= 0 and offset >= 0 fetchTopicList succeeds; total is the
\* number of topics of the container whose display the actor may see listed,
\* whatever the page; the page holds only such topics, each once, as the
\* store has them, sorted by dateline descending; and it is the part
\* [offset, offset + limit) of that sorted sequence: it has
\* min(limit, total - offset) topics (none when limit = 0 or offset >= total),
\* offset visible topics are sorted before it and the others after it.
C11_PageOfFiltered ==
  ProperPage
  => /\ list.out.kind = "ok"
     /\ list.out.total = Cardinality(Visible)
     /\ LET page == list.out.topics
             n == Len(page)
         IN  /\ n = Clamp(Cardinality(Visible) - list.offset, 0, list.limit)
             /\ \A i \in 1..n : /\ page[i].id \in Visible
                                /\ page[i] = ITopicOf(topics[page[i].id])
             /\ \A i, j \in 1..n : i # j => page[i].id # page[j].id
             /\ \A i, j \in 1..n :
                  i < j => topics[page[i].id].dateline >= topics[page[j].id].dateline
             /\ n > 0
                => \E before \in SUBSET (Visible \ PageIDs) :
                     /\ Cardinality(before) = list.offset
                     /\ \A t \in before :
                          topics[t].dateline >= topics[page[1].id].dateline
                     /\ \A t \in (Visible \ PageIDs) \ before :
                          topics[t].dateline <= topics[page[n].id].dateline

\* C12: the topics of a page come by dateline descending, and topics of
\* equal dateline by id ascending.
C12_TiesByID ==
  (list.called /\ list.out.kind = "ok")
  => \A i, j \in 1..Len(list.out.topics) :
       i < j
       => LET a == topics[list.out.topics[i].id]
              b == topics[list.out.topics[j].id]
          IN  \/ a.dateline > b.dateline
              \/ a.dateline = b.dateline /\ a.id < b.id

NewRows == {x \in posts : x.id >= 11}

\* C14: a createTopicReply call whose parentID is not 0 and is not the id of
\* a stored reply row stores nothing: every row that a call stored with a
\* related other than 0 names a stored reply row by it.
C14_UnknownParentRejected ==
  \A x \in NewRows : x.related # 0 => \E y \in posts : y.id = x.related

\* C15: a fetchTopicList call for a group with a negative limit or a negative
\* offset ends in an error and has issued no query to the store, neither the
\* count nor the find.
C15_NegativeRejected ==
  (/\ list.called
   /\ list.type = TypeGroup
   /\ (list.limit < 0 \/ list.offset < 0))
  => (list.out.kind # "ok" /\ list.queries = <<>>)

\* the stored rows of topic t but its top post (the row of the lowest id)
BelowTop(t) ==
  {x \in RowsOf(posts, t) : \E y \in RowsOf(posts, t) : y.id < x.id}
\* of these, the replies to the topic and the replies to such a reply
TopLevelRows(t) == {x \in BelowTop(t) : x.related = 0}
NestedRows(t) ==
  {x \in BelowTop(t) : \E y \in TopLevelRows(t) : y.id = x.related}
\* and the rest: the replies to a sub-reply, to the top post, to a row of
\* another topic or to no row at all
Orphans(t) == BelowTop(t) \ (TopLevelRows(t) \cup NestedRows(t))
\* the ids of all nodes of a rendered tree, top-level replies first
NodeIDs(rs) == IDs(rs) \o SubIDs(rs)
SetOf(ids) == {ids[i] : i \in 1..Len(ids)}

\* C16: in every thread fetchDetail renders, a stored row other than the top
\* post is a node of the tree exactly if its related is 0 or the id of a row
\* of the same topic that has related 0 and is not the top post; the top
\* level holds the former and the sub-reply lists the latter; every such row
\* is a node once, every other row (an orphan) is left out with no error, and
\* the number of nodes is the number of stored rows minus 1 minus the orphans.
C16_OrphansDropped ==
  \A auth \in Auths, t \in TopicIDArgs :
    LET out == fetchDetail(auth, t)
    IN  (t \in DOMAIN topics /\ CanViewTopicContent(auth, topics[t])
         /\ RowsOf(posts, t) # {})
        => /\ out.kind = "ok"
           /\ SetOf(IDs(out.replies)) = {x.id : x \in TopLevelRows(t)}
           /\ SetOf(SubIDs(out.replies)) = {x.id : x \in NestedRows(t)}
           /\ Distinct(NodeIDs(out.replies))
           /\ Len(NodeIDs(out.replies))
              = Cardinality(RowsOf(posts, t)) - 1 - Cardinality(Orphans(t))

\* the thread rendered last is the one of the stored rows, which hold a
\* reply to a sub-reply, a reply to the top post and a reply that a call
\* stored with a related that names no row of the topic
C16_Witness ==
  /\ detail.called
  /\ detail.out.kind = "ok"
  /\ detail.out = fetchDetail(detail.auth, detail.id)
  /\ \E x \in Orphans(detail.id) :
       \E y \in NestedRows(detail.id) : y.id = x.related
  /\ \E x \in Orphans(detail.id) :
       \E y \in RowsOf(posts, detail.id) \ BelowTop(detail.id) : y.id = x.related
  /\ \E x \in Orphans(detail.id) \cap NewRows :
       \A y \in RowsOf(posts, detail.id) : y.id # x.related
  /\ detail.out.replies # <<>>

\* C17: for a topic that is stored and that the actor may view, fetchDetail
\* throws UnexpectedNotFoundError (it returns neither null nor an empty
\* thread) when the store holds no reply row of the topic, and when it holds
\* exactly one it returns that row as the top post (its content, uid and
\* dateline) with an empty list of replies.
C17_TopPostRequired ==
  \A auth \in Auths, t \in TopicIDArgs :
    (t \in DOMAIN topics /\ CanViewTopicContent(auth, topics[t]))
    => LET out == fetchDetail(auth, t)
           rows == RowsOf(posts, t)
       IN  /\ rows = {} => out = Thrown("UnexpectedNotFoundError")
           /\ Cardinality(rows) = 1
              => /\ out.kind = "ok"
                 /\ out.replies = <<>>
                 /\ \A x \in rows : /\ out.text = x.content
                                    /\ out.creatorID = x.uid
                                    /\ out.createdAt = x.dateline

\* fetchDetail was called for a stored, viewable topic that has no rows
C17_Witness ==
  /\ detail.called
  /\ detail.id \in DOMAIN topics
  /\ CanViewTopicContent(detail.auth, topics[detail.id])
  /\ RowsOf(posts, detail.id) = {}
  /\ detail.out = Thrown("UnexpectedNotFoundError")

\* C18: fetchTopicList and createTopicReply for a type other than group end
\* with UnimplementedError before any read or write of the store: such a
\* fetchTopicList call has issued no query; a createTopicReply call that ends
\* with UnimplementedError has opened no transaction, stored no reply row,
\* taken no row id and changed no topic; and every transaction that is open,
\* like every query issued, belongs to a call for a group.
C18_NonGroupUnimplemented ==
  /\ [](/\ \A p \in Procs : pc[p] # "idle" => arg[p].topicType = TypeGroup
        /\ (list.called /\ list.type # TypeGroup)
           => (list.out = Thrown("UnimplementedError") /\ list.queries = <<>>)
        /\ (list.called /\ list.queries # <<>>) => list.type = TypeGroup)
  /\ [][\A p \in Procs :
          (ret'[p] = Thrown("UnimplementedError") /\ pc[p] = "idle")
          => /\ pc'[p] = "idle"
             /\ topics' = topics
             /\ posts' = posts
             /\ nextPostID' = nextPostID
             /\ calls' = calls]_vars

\* a call of each of the two has ended with UnimplementedError
C18_Witness ==
  /\ ret[1] = Thrown("UnimplementedError")
  /\ list.called
  /\ list.type = TypeSubject
  /\ list.out = Thrown("UnimplementedError")

\* the latest dateline (createdAt) among a set of reply rows
Latest(rows) == CHOOSE d \in {x.dateline : x \in rows} :
                  \A x \in rows : x.dateline <= d

\* C19: for a topic that is not sunk and that the ranking list does not
\* cover (neither its id nor its container is in the list), once
\* createTopicReply calls have stored replies to it, its dateline (sort
\* timestamp) is the latest createdAt among those replies: a call that
\* commits later never sets it back to an earlier event time.
C19_LatestReplyWins ==
  \A t \in DOMAIN topics :
    (/\ topics[t].state # AdminSilentTopic
     /\ t \notin RankingIDs
     /\ topics[t].gid \notin RankingIDs
     /\ RowsOf(NewRows, t) # {})
    => topics[t].dateline = Latest(RowsOf(NewRows, t))

\* the last edit call was made for a subject of the sandbox
InSandBox == editing.edits > 0 /\ editing.arg.subjectID \in SandBox
\* the rows of the store of subjects other than those of subject id are kept
OthersKept(id) ==
  /\ \A k \in DOMAIN subjects \ {id} : subjects'[k] = subjects[k]
  /\ \A k \in DOMAIN subjectFields \ {id} : subjectFields'[k] = subjectFields[k]
  /\ DOMAIN subjects' = DOMAIN subjects
  /\ DOMAIN subjectFields' = DOMAIN subjectFields
\* the revision, the subject columns and the date of the running call are
\* all in the store after the step
AllApplied ==
  LET a == editing.arg
      id == a.subjectID
  IN  /\ \E r \in subjectRevs' \ subjectRevs :
           /\ subjectRevs' = subjectRevs \cup {r}
           /\ r.subjectID = id
           /\ r.infobox = a.infobox
           /\ r.createdAt = a.now
      /\ subjects'[id].fieldInfobox = a.infobox
      /\ subjects'[id].name = a.name
      /\ subjects'[id].updatedAt = a.now
      /\ id \in DOMAIN subjectFields
         => subjectFields'[id].fieldDate
            = (IF a.date # Undefined THEN a.date ELSE extractDate(wiki(a.infobox)))
      /\ OthersKept(id)

\* C20: an edit call for a subject outside SandBox returns normally and has
\* issued no statement to the store; a call for a subject of SandBox whose
\* infobox does not parse ends with InvalidWikiSyntaxError and has issued no
\* statement; and the rows of subjects, revisions and subject fields change
\* only in the commit of a call for a subject of SandBox, which brings the
\* new revision, the subject's new columns and the subject's date into the
\* store in one step: a call that ends with an error leaves all three as
\* they were.
C20_SandboxedAtomicEdit ==
  /\ [](/\ (editing.edits > 0 /\ ~InSandBox)
           => /\ editing.pc = "idle"
              /\ editing.ret = [kind |-> "ok"]
              /\ editing.statements = <<>>
        /\ (InSandBox /\ ~WikiParses(editing.arg.infobox))
           => /\ editing.pc = "idle"
              /\ editing.ret = Thrown("InvalidWikiSyntaxError")
              /\ editing.statements = <<>>)
  /\ [][/\ (editing'.pc = "idle" /\ editing'.ret # [kind |-> "ok"])
           => UNCHANGED subjectStore
        /\ ~(UNCHANGED subjectStore)
           => (editing.pc = "commit" /\ InSandBox /\ AllApplied)
        /\ (editing.pc = "commit" /\ editing'.ret = [kind |-> "ok"])
           => AllApplied]_vars

\* an edit of a sandbox subject has committed its revision, and the call
\* after it, for a subject outside the sandbox, has returned
C20_Witness ==
  /\ editing.edits = 2
  /\ ~InSandBox
  /\ editing.ret = [kind |-> "ok"]
  /\ \E r \in subjectRevs :
       /\ r.subjectID \in SandBox
       /\ subjects[r.subjectID].fieldInfobox = r.infobox
       /\ subjects[r.subjectID].updatedAt = r.createdAt
====
